---- MODULE Spec2Model ----
(***************************************************************************)
(* Model of jcvi/formats/bed.py: the BedLine record (parse, serialize,     *)
(* reverse_complement) and the Bed collection (load, sort, derived views). *)
(* Text is modelled as sequences of one-character strings, so that strip,  *)
(* split, int and str are computed the way Python computes them.           *)
(***************************************************************************)
EXTENDS Integers, Sequences, FiniteSets, TLC

VARIABLES
    sline,   \* the line handed to BedLine(sline)
    sizes,   \* the Sizes lookup handed to reverse_complement of the standalone record
    rec,     \* the standalone BedLine, NoRecord before/without construction
    parsed,  \* history: the standalone BedLine as BedLine.__init__ left it
    nrev,    \* history: completed reverse_complement calls on rec
    bed,     \* the Bed collection: the list of BedLine objects it holds
    key,     \* Bed.key, the configured sort key
    pc,      \* life cycle of the Bed object: "new", "loaded", "failed"
    source,  \* the filename argument: NoFile or the file, [lines |-> its lines]
    touched, \* history: a held record was reversed or a record appended since construction
    ncalls,  \* reverse_complement calls made on records held by bed
    ret      \* outcome of the last operation: [op, err, val]

vars == <<sline, sizes, rec, parsed, nrev, bed, key, pc, source, touched, ncalls, ret>>

recVars == <<sline, sizes, rec, parsed, nrev>>
bedVars == <<bed, key, pc, source, touched, ncalls>>

----------------------------------------------------------------------------
(* Bounds *)

MaxLines == 3    \* longest source file, in lines
MaxRev == 2      \* completed reversals of the standalone record
MaxCalls == 1    \* reverse_complement calls on records of the collection

----------------------------------------------------------------------------
(* Python values and text primitives *)

None == <<"None">>
NoRecord == [none |-> TRUE]
NoFile == [none |-> TRUE]
Ok == "ok"

Min(S) == CHOOSE x \in S : \A y \in S : x <= y
Max(S) == CHOOSE x \in S : \A y \in S : x >= y
Range(s) == {s[i] : i \in 1..Len(s)}

\* code points of the characters used, for Python's string comparison
Ord(c) ==
    CASE c = "\t" -> 9   [] c = "\n" -> 10  [] c = " " -> 32  [] c = "#" -> 35
      [] c = "+" -> 43   [] c = "-" -> 45   [] c = "." -> 46
      [] c = "0" -> 48   [] c = "1" -> 49   [] c = "2" -> 50  [] c = "3" -> 51
      [] c = "4" -> 52   [] c = "5" -> 53   [] c = "6" -> 54  [] c = "7" -> 55
      [] c = "8" -> 56   [] c = "9" -> 57
      [] c = "a" -> 97   [] c = "b" -> 98   [] c = "c" -> 99  [] c = "d" -> 100

IsSpace(c) == c \in {" ", "\t", "\n"}
IsDigit(c) == c \in {"0", "1", "2", "3", "4", "5", "6", "7", "8", "9"}

RECURSIVE lstrip(_)
lstrip(s) == IF s # <<>> /\ IsSpace(Head(s)) THEN lstrip(Tail(s)) ELSE s

RECURSIVE rstrip(_, _)
\* s.rstrip(chars): drops EVERY trailing character that is in chars
rstrip(s, chars) ==
    IF s # <<>> /\ s[Len(s)] \in chars
    THEN rstrip(SubSeq(s, 1, Len(s) - 1), chars) ELSE s

strip(s) == rstrip(lstrip(s), {" ", "\t", "\n"})

RECURSIVE split(_, _)
\* s.split(sep): always at least one field, empty fields kept
split(s, sep) ==
    LET idx == {i \in 1..Len(s) : s[i] = sep}
    IN  IF idx = {} THEN <<s>>
        ELSE <<SubSeq(s, 1, Min(idx) - 1)>>
             \o split(SubSeq(s, Min(idx) + 1, Len(s)), sep)

RECURSIVE join(_, _)
\* sep.join(xs)
join(sep, xs) ==
    IF xs = <<>> THEN <<>>
    ELSE IF Len(xs) = 1 THEN xs[1]
    ELSE xs[1] \o <<sep>> \o join(sep, Tail(xs))

RECURSIVE DigitsValue(_)
DigitsValue(s) ==
    IF s = <<>> THEN 0
    ELSE 10 * DigitsValue(SubSeq(s, 1, Len(s) - 1)) + (Ord(s[Len(s)]) - 48)

\* int(s) accepts surrounding whitespace, one optional sign, then digits
IntBody(s) ==
    LET t == strip(s)
    IN  IF t # <<>> /\ t[1] \in {"+", "-"} THEN Tail(t) ELSE t

IntOk(s) ==
    /\ IntBody(s) # <<>>
    /\ \A i \in 1..Len(IntBody(s)) : IsDigit(IntBody(s)[i])

int(s) ==
    IF strip(s)[1] = "-" THEN 0 - DigitsValue(IntBody(s)) ELSE DigitsValue(IntBody(s))

RECURSIVE NatStr(_)
NatStr(n) ==
    IF n < 10 THEN <<CHOOSE c \in {"0", "1", "2", "3", "4", "5", "6", "7", "8", "9"} :
                        Ord(c) = 48 + n>>
    ELSE NatStr(n \div 10) \o NatStr(n % 10)

\* str(n) for an integer: canonical decimal
str(n) == IF n < 0 THEN <<"-">> \o NatStr(0 - n) ELSE NatStr(n)

\* Python's comparison of two strings
RECURSIVE StrLess(_, _)
StrLess(s, t) ==
    IF t = <<>> THEN FALSE
    ELSE IF s = <<>> THEN TRUE
    ELSE IF Ord(s[1]) # Ord(t[1]) THEN Ord(s[1]) < Ord(t[1])
    ELSE StrLess(Tail(s), Tail(t))

----------------------------------------------------------------------------
(* BedLine *)

\* BedLine.__init__: the statements run in source order, the first that
\* raises decides the error and no object results
BedLine(line) ==
    LET args == split(strip(line), "\t")
        n == Len(args)
    IN  IF n < 2 THEN [err |-> "IndexError", rec |-> NoRecord]
        ELSE IF ~IntOk(args[2]) THEN [err |-> "ValueError", rec |-> NoRecord]
        ELSE IF n < 3 THEN [err |-> "IndexError", rec |-> NoRecord]
        ELSE IF ~IntOk(args[3]) THEN [err |-> "ValueError", rec |-> NoRecord]
        ELSE IF ~(int(args[2]) + 1 <= int(args[3]))
             THEN [err |-> "AssertionError", rec |-> NoRecord]
        ELSE IF n < 4 THEN [err |-> "IndexError", rec |-> NoRecord]
        ELSE [err |-> Ok,
              rec |-> [seqid |-> args[1],
                       start |-> int(args[2]) + 1,
                       end |-> int(args[3]),
                       accn |-> args[4],
                       extra |-> IF n > 4 THEN SubSeq(args, 5, n) ELSE <<>>,
                       score |-> IF n > 4 THEN args[5] ELSE None,
                       strand |-> IF n > 5 THEN args[6] ELSE None]]

BedLine_str_NoShift(b) ==
    LET s == join("\t", <<b.seqid, str(b.start), str(b.end), b.accn>>)
    IN  IF b.extra # <<>> THEN s \o <<"\t">> \o join("\t", b.extra) ELSE s

\* BedLine.__str__
BedLine_str(b) ==
    LET s == join("\t", <<b.seqid, str(b.start - 1), str(b.end), b.accn>>)
    IN  IF b.extra # <<>> THEN s \o <<"\t">> \o join("\t", b.extra) ELSE s

\* truth value of self.strand: None and "" are false
Truthy(v) == v # None /\ v # <<>>

FlipStrand(s) == IF s = <<"+">> THEN <<"-">> ELSE <<"+">>

\* Sizes.get_size is defined on the keys of the lookup only
HasSize(lookup, seqid) == seqid \in DOMAIN lookup
get_size(lookup, seqid) == lookup[seqid]

\* the orientation marker is toggled on the last character of self.seqid
ToggleAlwaysAppend(seqid) == seqid \o <<"-">>

ToggleMarker(seqid) ==
    IF seqid[Len(seqid)] = "-" THEN SubSeq(seqid, 1, Len(seqid) - 1)
    ELSE seqid \o <<"-">>

ReflectUnswapped(b, size) ==
    [b EXCEPT !.start = size - b.start + 1, !.end = size - b.end + 1]

ReflectOffByOne(b, size) ==
    [b EXCEPT !.start = size - b.end, !.end = size - b.start]

\* start, end = size - end + 1, size - start + 1
Reflect(b, size) ==
    [b EXCEPT !.start = size - b.end + 1, !.end = size - b.start + 1]

\* BedLine.reverse_complement: rec is the object as the call leaves it, also
\* when the call raises part way
reverse_complement(b, lookup) ==
    LET seqid == rstrip(b.seqid, {"-"})
    IN  IF ~HasSize(lookup, seqid) THEN [err |-> "NotFound", rec |-> b]
        ELSE IF b.seqid = <<>> THEN [err |-> "IndexError", rec |-> b]
        ELSE
        LET size == get_size(lookup, seqid)
            b1 == [b EXCEPT !.seqid = ToggleMarker(b.seqid)]
            b2 == Reflect(b1, size)
        IN  IF ~(b2.start <= b2.end) THEN [err |-> "AssertionError", rec |-> b2]
            ELSE IF ~Truthy(b2.strand) THEN [err |-> Ok, rec |-> b2]
            ELSE IF b2.strand \notin {<<"+">>, <<"-">>}
                 THEN [err |-> "KeyError", rec |-> b2]
            ELSE [err |-> Ok,
                  rec |-> [b2 EXCEPT !.strand = FlipStrand(b2.strand),
                                     !.extra[2] = FlipStrand(b2.strand)]]

----------------------------------------------------------------------------
(* Inputs of the standalone record *)

RecSeqids == {<<"c">>, <<"c", "-">>, <<"c", "-", "-">>, <<"-">>}
RecNumerals == {<<"0">>, <<"1">>, <<"3">>, <<"0", "2">>, <<"+", "2">>, <<"-", "1">>}
RecTails == {<<>>, <<"\t", "5">>, <<"\t", "5", "\t", "+">>,
             <<"\t", "5", "\t", "-", "\t", "a">>, <<"\t", "5", "\t", ".">>,
             <<"\t", "\t">>}

RecordLines ==
    {join("\t", <<s, a, b, <<"a">> >>) \o t :
        s \in RecSeqids, a \in RecNumerals, b \in RecNumerals, t \in RecTails}
    \cup {<<"c">>, <<"c", "\t", "1">>, <<"c", "\t", "a", "\t", "2", "\t", "a">>,
          <<"c", "\t", "1", "\t", "2">>, <<"c", "\t", "1", "\t", "2", "\t", "a", "\n">>,
          <<"c", "\t", " ", "1", "\t", "2", "\t", "a">>}

SizeLookups == {<<>>, (<<"c">> :> 2), (<<"c">> :> 5) @@ (<<>> :> 4)}

NoRet == [op |-> "none", err |-> Ok, val |-> <<>>]

InitRecord ==
    /\ sline \in RecordLines
    /\ sizes \in SizeLookups
    /\ rec = NoRecord
    /\ parsed = NoRecord
    /\ nrev = 0
    /\ bed = <<>>
    /\ key = "default"
    /\ pc = "new"
    /\ source = NoFile
    /\ touched = FALSE
    /\ ncalls = 0
    /\ ret = NoRet

\* rec = BedLine(sline)
Parse ==
    /\ ret.op = "none"
    /\ rec' = BedLine(sline).rec
    /\ parsed' = BedLine(sline).rec
    /\ ret' = [op |-> "BedLine", err |-> BedLine(sline).err, val |-> <<>>]
    /\ UNCHANGED <<sline, sizes, nrev, bedVars>>

\* str(rec)
Str ==
    /\ rec # NoRecord
    /\ ret' = [op |-> "str", err |-> Ok, val |-> BedLine_str(rec)]
    /\ UNCHANGED <<recVars, bedVars>>

\* rec.reverse_complement(sizes)
ReverseComplement ==
    /\ rec # NoRecord
    /\ nrev < MaxRev
    /\ LET r == reverse_complement(rec, sizes)
       IN  /\ rec' = r.rec
           /\ nrev' = IF r.err = Ok THEN nrev + 1 ELSE nrev
           /\ ret' = [op |-> "reverse_complement", err |-> r.err, val |-> <<>>]
    /\ UNCHANGED <<sline, sizes, parsed, bedVars>>

NextRecord == Parse \/ Str \/ ReverseComplement

SpecRecord == InitRecord /\ [][NextRecord]_vars

----------------------------------------------------------------------------
(* Bed *)

Keys == {"default", "accn"}

\* x sorts strictly before y under the key function named k:
\* "default" is lambda x: (x.seqid, x.start, x.accn), "accn" is lambda x: x.accn
KeyLess(k, x, y) ==
    IF k = "accn" THEN StrLess(x.accn, y.accn)
    ELSE \/ StrLess(x.seqid, y.seqid)
         \/ x.seqid = y.seqid /\ x.start < y.start
         \/ x.seqid = y.seqid /\ x.start = y.start /\ StrLess(x.accn, y.accn)

sort_none(seq, k) == seq

sort_unstable(seq, k) ==
    LET n == Len(seq)
        rank(i) == Cardinality({j \in 1..n :
                       \/ KeyLess(k, seq[j], seq[i])
                       \/ ~KeyLess(k, seq[i], seq[j]) /\ j > i}) + 1
    IN  [p \in 1..n |-> seq[CHOOSE i \in 1..n : rank(i) = p]]

\* list.sort(key=...): stable, an element goes after the smaller ones and
\* after the equal ones that preceded it
sort(seq, k) ==
    LET n == Len(seq)
        rank(i) == Cardinality({j \in 1..n :
                       \/ KeyLess(k, seq[j], seq[i])
                       \/ ~KeyLess(k, seq[i], seq[j]) /\ j < i}) + 1
    IN  [p \in 1..n |-> seq[CHOOSE i \in 1..n : rank(i) = p]]

\* line[0] == "#"
IsComment(line) == line[1] = "#"

RECURSIVE ReadLines(_)
\* the loop over the file: comments skipped, every other line appended as a
\* BedLine, the first line that raises ends the loop with its error
ReadLines(lines) ==
    IF lines = <<>> THEN [err |-> Ok, recs |-> <<>>]
    ELSE IF IsComment(Head(lines)) THEN ReadLines(Tail(lines))
    ELSE IF BedLine(Head(lines)).err # Ok
         THEN [err |-> BedLine(Head(lines)).err, recs |-> <<>>]
    ELSE LET rest == ReadLines(Tail(lines))
         IN  IF rest.err # Ok THEN rest
             ELSE [err |-> Ok, recs |-> <<BedLine(Head(lines)).rec>> \o rest.recs]

\* Bed.__init__(filename, key)
Bed_init(f, k) ==
    IF f = NoFile THEN [err |-> Ok, recs |-> <<>>]
    ELSE IF ReadLines(f.lines).err # Ok THEN ReadLines(f.lines)
    ELSE [err |-> Ok, recs |-> sort(ReadLines(f.lines).recs, k)]

RangesHalfOpen(b) == [i \in 1..Len(b) |-> <<b[i].seqid, b[i].start - 1, b[i].end>>]

\* ranges = [(x.seqid, x.start, x.end) for x in self]
Ranges(b) == [i \in 1..Len(b) |-> <<b[i].seqid, b[i].start, b[i].end>>]

\* the intervals of one seqid, by start then end
SortRanges(rs) ==
    LET n == Len(rs)
        less(x, y) == x[1] < y[1] \/ (x[1] = y[1] /\ x[2] < y[2])
        rank(i) == Cardinality({j \in 1..n :
                       \/ less(rs[j], rs[i])
                       \/ ~less(rs[i], rs[j]) /\ j < i}) + 1
    IN  [p \in 1..n |-> rs[CHOOSE i \in 1..n : rank(i) = p]]

RECURSIVE Sweep(_, _, _, _)
\* one pass over the sorted intervals with the merged interval cur
Sweep(rs, i, cur, total) ==
    IF i > Len(rs) THEN total + (cur[2] - cur[1] + 1)
    ELSE IF rs[i][1] <= cur[2] + 1
         THEN Sweep(rs, i + 1, <<cur[1], Max({cur[2], rs[i][2]})>>, total)
    ELSE Sweep(rs, i + 1, rs[i], total + (cur[2] - cur[1] + 1))

GroupOf(ranges, seqid) ==
    LET g == SelectSeq(ranges, LAMBDA r : r[1] = seqid)
    IN  SortRanges([i \in 1..Len(g) |-> <<g[i][2], g[i][3]>>])

RECURSIVE SumGroups(_, _)
SumGroups(ranges, ids) ==
    IF ids = {} THEN 0
    ELSE LET s == CHOOSE x \in ids : TRUE
         IN  Sweep(GroupOf(ranges, s), 2, GroupOf(ranges, s)[1], 0)
             + SumGroups(ranges, ids \ {s})

\* jcvi.utils.range.range_union: total length of the union, per seqid
range_union(ranges) == SumGroups(ranges, {ranges[i][1] : i \in 1..Len(ranges)})

\* Bed.sum
sum(b) == range_union(Ranges(b))

\* sorted(xs) for a list of strings
SortStrings(xs) ==
    LET n == Len(xs)
        rank(i) == Cardinality({j \in 1..n :
                       \/ StrLess(xs[j], xs[i])
                       \/ xs[j] = xs[i] /\ j < i}) + 1
    IN  [p \in 1..n |-> xs[CHOOSE i \in 1..n : rank(i) = p]]

RECURSIVE SetToSeq(_)
\* the elements of set(...) in some iteration order
SetToSeq(S) ==
    IF S = {} THEN <<>>
    ELSE LET x == CHOOSE y \in S : TRUE IN <<x>> \o SetToSeq(S \ {x})

seqids_all(b) == SortStrings([i \in 1..Len(b) |-> b[i].seqid])

\* Bed.seqids
seqids(b) == SortStrings(SetToSeq({b[i].seqid : i \in 1..Len(b)}))

DictSetDefault(d, k, v) == d @@ (k :> v)

\* a dict built from pairs: a repeated key takes the later value
DictSet(d, k, v) == (k :> v) @@ d

RECURSIVE OrderUpTo(_, _)
OrderUpTo(b, n) ==
    IF n = 0 THEN <<>>
    ELSE DictSet(OrderUpTo(b, n - 1), b[n].accn, <<n - 1, b[n]>>)

\* Bed.order
order(b) == OrderUpTo(b, Len(b))

\* Bed.sub_bed
sub_bed(b, seqid) == SelectSeq(b, LAMBDA x : x.seqid = seqid)

\* Bed.sub_beds
sub_beds(b) == [j \in 1..Len(seqids(b)) |-> <<seqids(b)[j], sub_bed(b, seqids(b)[j])>>]

----------------------------------------------------------------------------
(* Inputs of the collection *)

\* lines of a source file, each with its newline
FileLines ==
    {<<"c", "\t", "0", "\t", "2", "\t", "a", "\n">>,
     <<"c", "\t", "1", "\t", "3", "\t", "b", "\n">>,
     <<"c", "\t", "3", "\t", "5", "\t", "b", "\n">>,
     <<"c", "\t", "0", "\t", "4", "\t", "a", "\t", "5", "\t", "+", "\n">>,
     <<"d", "\t", "0", "\t", "2", "\t", "b", "\n">>,
     <<"#", "c", "\t", "0", "\t", "2", "\t", "a", "\n">>,
     <<"c", "\t", "3", "\t", "1", "\t", "a", "\n">>}

\* a readable file is the record of its lines; filename=None is NoFile
Files == {[lines |-> ls] : ls \in UNION {[1..n -> FileLines] : n \in 0..MaxLines}}

BedLookups == {(<<"c">> :> 6)}

Init ==
    /\ sline = <<>>
    /\ sizes = <<>>
    /\ rec = NoRecord
    /\ parsed = NoRecord
    /\ nrev = 0
    /\ bed = <<>>
    /\ key = "default"
    /\ pc = "new"
    /\ source = NoFile
    /\ touched = FALSE
    /\ ncalls = 0
    /\ ret = NoRet

\* bed = Bed(filename, key)
Load ==
    /\ pc = "new"
    /\ \E f \in Files \cup {NoFile}, k \in Keys :
          /\ source' = f
          /\ key' = k
          /\ bed' = Bed_init(f, k).recs
          /\ pc' = IF Bed_init(f, k).err = Ok THEN "loaded" ELSE "failed"
          /\ ret' = [op |-> "Bed", err |-> Bed_init(f, k).err, val |-> <<>>]
    /\ UNCHANGED <<recVars, touched, ncalls>>

\* bed.append(BedLine(line)), the programmatic way to fill a collection that
\* was created without a filename
AppendLine ==
    /\ pc = "loaded"
    /\ source = NoFile
    /\ Len(bed) < MaxLines
    /\ \E l \in FileLines :
          /\ bed' = IF BedLine(l).err = Ok THEN Append(bed, BedLine(l).rec) ELSE bed
          /\ touched' = (touched \/ BedLine(l).err = Ok)
          /\ ret' = [op |-> "append", err |-> BedLine(l).err, val |-> <<>>]
    /\ UNCHANGED <<recVars, key, pc, source, ncalls>>

\* bed[i].reverse_complement(sizes) on a record the collection holds
ReverseComplementAt ==
    /\ pc = "loaded"
    /\ ncalls < MaxCalls
    /\ \E i \in 1..Len(bed), lookup \in BedLookups :
          /\ bed' = [bed EXCEPT ![i] = reverse_complement(bed[i], lookup).rec]
          /\ touched' = (touched \/ bed'[i] # bed[i])
          /\ ret' = [op |-> "reverse_complement",
                     err |-> reverse_complement(bed[i], lookup).err, val |-> <<>>]
    /\ ncalls' = ncalls + 1
    /\ UNCHANGED <<recVars, key, pc, source>>

\* bed.sum
Sum ==
    /\ pc = "loaded"
    /\ ret' = [op |-> "sum", err |-> Ok, val |-> sum(bed)]
    /\ UNCHANGED <<recVars, bedVars>>

\* bed.seqids
Seqids ==
    /\ pc = "loaded"
    /\ ret' = [op |-> "seqids", err |-> Ok, val |-> seqids(bed)]
    /\ UNCHANGED <<recVars, bedVars>>

\* bed.order
Order ==
    /\ pc = "loaded"
    /\ ret' = [op |-> "order", err |-> Ok, val |-> order(bed)]
    /\ UNCHANGED <<recVars, bedVars>>

\* list(bed.sub_beds())
SubBeds ==
    /\ pc = "loaded"
    /\ ret' = [op |-> "sub_beds", err |-> Ok, val |-> sub_beds(bed)]
    /\ UNCHANGED <<recVars, bedVars>>

Next == Load \/ AppendLine \/ ReverseComplementAt \/ Sum \/ Seqids \/ Order \/ SubBeds

Spec == Init /\ [][Next]_vars

----------------------------------------------------------------------------
(* Properties of the collection, checked under Spec *)

Covered(b) ==
    UNION {{<<b[i].seqid, q>> : q \in b[i].start..b[i].end} : i \in 1..Len(b)}

RECURSIVE TotalLength(_)
TotalLength(b) ==
    IF b = <<>> THEN 0 ELSE (Head(b).end - Head(b).start + 1) + TotalLength(Tail(b))

\* C2: Sum is the number of distinct (seqid, position) pairs covered by at
\* least one Record's closed interval [start, end]; the empty collection
\* gives 0.
C2_SumIsCoverage ==
    ret.op = "sum" => ret.val = Cardinality(Covered(bed))

\* three records on two seqids with positions shared between records
C2_Witness ==
    /\ ret.op = "sum"
    /\ Len(bed) = 3
    /\ Cardinality({bed[i].seqid : i \in 1..Len(bed)}) = 2
    /\ ret.val < TotalLength(bed)
    /\ ret.val = Cardinality(Covered(bed))

Sorted(b, k) == \A i, j \in 1..Len(b) : i < j => ~KeyLess(k, b[j], b[i])

\* C3 as stated: in every reachable state of a Collection after construction
\* the sequence is sorted under its key, also after ReverseComplement on a
\* held Record and after programmatic appends.
C3_AlwaysSorted ==
    pc = "loaded" => Sorted(bed, key)

\* C3 amended: a Collection is sorted under its key when Load returns it and
\* stays so while only read-only views are taken; once a held Record has been
\* reversed in place or a Record appended, nothing re-sorts it.
C3_SortedUntilTouched ==
    (pc = "loaded" /\ ~touched) => Sorted(bed, key)

C3_Witness ==
    /\ pc = "loaded"
    /\ source # NoFile
    /\ ~touched
    /\ ret.op = "sub_beds"
    /\ Len(bed) = 3
    /\ bed # ReadLines(source.lines).recs

NonComment(f) == SelectSeq(f.lines, LAMBDA l : l[1] # "#")

\* the Records parsed from the lines not beginning with '#', in input order
ParsedOf(f) == [i \in 1..Len(NonComment(f)) |-> BedLine(NonComment(f)[i]).rec]

SameKey(k, x, y) == ~KeyLess(k, x, y) /\ ~KeyLess(k, y, x)

\* C5: Load of a source whose non-comment lines all parse returns a
\* permutation of exactly the Records parsed from those lines, ordered
\* non-decreasingly by the key, Records of equal key in input order.
C5_LoadIsStableSort ==
    (ret.op = "Bed" /\ source # NoFile
        /\ \A i \in 1..Len(NonComment(source)) : BedLine(NonComment(source)[i]).err = Ok)
    => /\ pc = "loaded"
       /\ Len(bed) = Len(ParsedOf(source))
       /\ Sorted(bed, key)
       /\ \A x \in Range(bed) \cup Range(ParsedOf(source)) :
             SelectSeq(bed, LAMBDA y : SameKey(key, x, y))
               = SelectSeq(ParsedOf(source), LAMBDA y : SameKey(key, x, y))

\* the shape of (chr2, g1), (chr1, g2), (chr1, g3) loading as g3, g2, g1
C5_Witness ==
    /\ ret.op = "Bed"
    /\ pc = "loaded"
    /\ key = "default"
    /\ Len(bed) = 3
    /\ Len(source.lines) = 3
    /\ bed = <<ParsedOf(source)[3], ParsedOf(source)[2], ParsedOf(source)[1]>>
    /\ bed[1].seqid = bed[2].seqid
    /\ bed[2].seqid # bed[3].seqid

\* C8: order has exactly one entry per distinct accession, and order[a] is
\* (i, r) for the largest 0-based index i with collection[i].accn = a and the
\* Record r at that index.
C8_OrderLastWins ==
    ret.op = "order" =>
        /\ DOMAIN ret.val = {bed[i].accn : i \in 1..Len(bed)}
        /\ \A a \in DOMAIN ret.val :
              LET last == Max({i \in 1..Len(bed) : bed[i].accn = a})
              IN  ret.val[a] = <<last - 1, bed[last]>>

\* an accession carried by two different Records
C8_Witness ==
    /\ ret.op = "order"
    /\ \E i, j \in 1..Len(bed) :
          /\ i < j
          /\ bed[i].accn = bed[j].accn
          /\ bed[i] # bed[j]
          /\ ret.val[bed[i].accn] = <<j - 1, bed[j]>>

IndexesOf(b, seqid) == {i \in 1..Len(b) : b[i].seqid = seqid}

\* g is the Records of b with that seqid, in the order b holds them
IsGroupOf(g, b, seqid) ==
    /\ Len(g) = Cardinality(IndexesOf(b, seqid))
    /\ \A i \in IndexesOf(b, seqid) :
          g[Cardinality({j \in IndexesOf(b, seqid) : j <= i})] = b[i]

\* C9: for any sort key, seqids lists each distinct seqid once in ascending
\* order, and the groups of sub_bed over seqids partition the collection:
\* every Record is in exactly the group of its seqid, groups keep collection
\* order, none is empty, and sub_beds yields them in ascending seqid order.
C9_GroupsPartition ==
    /\ ret.op = "seqids" =>
          /\ Range(ret.val) = {bed[i].seqid : i \in 1..Len(bed)}
          /\ \A i, j \in 1..Len(ret.val) : i < j => StrLess(ret.val[i], ret.val[j])
    /\ ret.op = "sub_beds" =>
          /\ {ret.val[j][1] : j \in 1..Len(ret.val)} = {bed[i].seqid : i \in 1..Len(bed)}
          /\ \A i, j \in 1..Len(ret.val) : i < j => StrLess(ret.val[i][1], ret.val[j][1])
          /\ \A j \in 1..Len(ret.val) :
                /\ ret.val[j][2] # <<>>
                /\ IsGroupOf(ret.val[j][2], bed, ret.val[j][1])
          /\ \A i \in 1..Len(bed) :
                Cardinality({j \in 1..Len(ret.val) : bed[i] \in Range(ret.val[j][2])}) = 1

\* groups that interleave in a collection ordered by accession
C9_Witness ==
    /\ ret.op = "sub_beds"
    /\ key = "accn"
    /\ Len(ret.val) = 2
    /\ Len(bed) = 3
    /\ bed[1].seqid = bed[3].seqid
    /\ bed[2].seqid # bed[1].seqid

----------------------------------------------------------------------------
(* Properties of the standalone record, checked under SpecRecord *)

Columns(l) == split(strip(l), "\t")

\* the line has integer coordinates whose conversion breaks start <= end
CoordsViolate(l) ==
    /\ Len(Columns(l)) >= 3
    /\ IntOk(Columns(l)[2])
    /\ IntOk(Columns(l)[3])
    /\ int(Columns(l)[2]) + 1 > int(Columns(l)[3])

\* C1: every Record, right after Parse and after any number of
\* ReverseComplement calls, has start <= end, with start = file_start + 1 and
\* end = file_end at Parse; a line whose converted coordinates violate it
\* fails validation and produces no Record.
C1_CoordinateInvariant ==
    /\ rec # NoRecord => rec.start <= rec.end
    /\ parsed # NoRecord =>
          /\ parsed.start = int(Columns(sline)[2]) + 1
          /\ parsed.end = int(Columns(sline)[3])
    /\ (ret.op # "none" /\ CoordsViolate(sline)) =>
          /\ rec = NoRecord
          /\ ret.op = "BedLine"
          /\ ret.err = "AssertionError"

C1_Witness ==
    /\ ret.op = "reverse_complement"
    /\ ret.err = Ok
    /\ nrev = 2
    /\ rec.start < rec.end

\* a whitespace-trimmed line of at least 4 columns with integer start0 < end0
WellFormed(l) ==
    /\ strip(l) = l
    /\ Len(split(l, "\t")) >= 4
    /\ IntOk(split(l, "\t")[2])
    /\ IntOk(split(l, "\t")[3])
    /\ int(split(l, "\t")[2]) < int(split(l, "\t")[3])

\* a decimal numeral the way str writes it: no sign but "-", no padding
Canonical(s) ==
    LET d == IF s # <<>> /\ s[1] = "-" THEN Tail(s) ELSE s
    IN  /\ d # <<>>
        /\ \A i \in 1..Len(d) : IsDigit(d[i])
        /\ d[1] = "0" => (Len(d) = 1 /\ s = d)

\* C4 as stated: Serialize(Parse(line)) reproduces any well-formed line of at
\* least 4 columns exactly.
C4_RoundTripExact ==
    (ret.op = "str" /\ rec = parsed /\ WellFormed(sline)) => ret.val = sline

\* C4 amended: Serialize(Parse(line)) reproduces seqid, accn and the extra
\* columns verbatim and the coordinates by value; the text is reproduced
\* exactly when start0 and end0 are written as canonical decimal numerals.
C4_RoundTripCanonical ==
    (ret.op = "str" /\ rec = parsed /\ WellFormed(sline)) =>
        LET a == split(sline, "\t")
            o == split(ret.val, "\t")
        IN  /\ Len(o) = Len(a)
            /\ \A i \in 1..Len(a) : i \notin {2, 3} => o[i] = a[i]
            /\ o[2] = str(int(a[2]))
            /\ o[3] = str(int(a[3]))
            /\ int(o[2]) = rec.start - 1
            /\ int(o[3]) = rec.end
            /\ (Canonical(a[2]) /\ Canonical(a[3])) => ret.val = sline

C4_Witness ==
    /\ ret.op = "str"
    /\ rec = parsed
    /\ WellFormed(sline)
    /\ Canonical(split(sline, "\t")[2])
    /\ Canonical(split(sline, "\t")[3])
    /\ Len(split(sline, "\t")) = 7
    /\ ret.val = sline

\* after every completed call extra[1] is the strand the record reports
StrandMirrored ==
    (ret.op = "reverse_complement" /\ ret.err = Ok /\ rec.strand # None) =>
        rec.extra[2] = rec.strand

\* C6 as stated: for every Record and seqid form, two ReverseComplement calls
\* with the same size lookup restore seqid, start, end, strand and the
\* serialization, extra[1] following strand after each call.
C6_TwiceIsIdentity ==
    /\ StrandMirrored
    /\ nrev = 2 => (rec = parsed /\ BedLine_str(rec) = BedLine_str(parsed))

\* a base name that does not end in the marker, with at most one marker after
MarkerForm(seqid) ==
    /\ rstrip(seqid, {"-"}) # <<>>
    /\ Len(seqid) - Len(rstrip(seqid, {"-"})) <= 1

\* C6 amended: the same, for Records whose seqid is a non-empty base name not
\* ending in the marker, followed by at most one marker.
C6_TwiceIsIdentityOneMarker ==
    /\ StrandMirrored
    /\ (nrev = 2 /\ MarkerForm(parsed.seqid)) =>
          (rec = parsed /\ BedLine_str(rec) = BedLine_str(parsed))

C6_Witness ==
    /\ nrev = 2
    /\ MarkerForm(parsed.seqid)
    /\ parsed.strand = <<"+">>
    /\ parsed.seqid = <<"c", "-">>
    /\ rec = parsed

\* the call got as far as the coordinates
Reflected == ret'.op = "reverse_complement" /\ ret'.err \notin {"NotFound", "IndexError"}

\* C7 as stated: whenever the looked-up size is smaller than the Record's
\* original end, the re-validation fails and the call does not complete.
C7_SmallSizeFails ==
    [][(Reflected /\ get_size(sizes, rstrip(rec.seqid, {"-"})) < rec.end)
          => ret'.err = "AssertionError"]_vars

\* C7 amended: ReverseComplement sets new_start = size - end + 1 and
\* new_end = size - start + 1; the re-validation new_start <= new_end then
\* always passes, also when size is smaller than the original end.
C7_ReflectionNeverFails ==
    [][Reflected =>
          /\ rec'.start = get_size(sizes, rstrip(rec.seqid, {"-"})) - rec.end + 1
          /\ rec'.end = get_size(sizes, rstrip(rec.seqid, {"-"})) - rec.start + 1
          /\ rec'.start <= rec'.end
          /\ ret'.err # "AssertionError"]_vars

\* a completed call whose size was smaller than the end it reflected
C7_Witness ==
    /\ ret.op = "reverse_complement"
    /\ ret.err = Ok
    /\ rec.start < 1

\* C10: a ReverseComplement call that fails leaves seqid, start, end, strand
\* and extra as they were before the call.
C10_AllOrNothing ==
    [][(ret'.op = "reverse_complement" /\ ret'.err # Ok) => rec' = rec]_vars
====
